---- MODULE Spec2Model ----
(***************************************************************************)
(* The backtesting engine of LLMEdgefund (src/backtester.py): the          *)
(* portfolio ledger (execute_trade), the decision parser, the buy-and-hold *)
(* benchmark, the day loop of run_backtest and the drawdown of             *)
(* analyze_performance.                                                    *)
(*                                                                         *)
(* Money and prices are integers (whole currency units), dates are day     *)
(* ordinals.  A decision text is a sequence of lines, a line a sequence of *)
(* string pieces in which ":" is the colon and " " is white space.         *)
(***************************************************************************)
EXTENDS Integers, Sequences, FiniteSets, TLC

VARIABLES
    start_date,        \* self.start_date
    end_date,          \* self.end_date
    initial_capital,   \* self.initial_capital
    trading_workflow,  \* self.trading_workflow: which oracle was wired in
    market,            \* the price source: date -> close, NoBar where it has no bar
    pc,                \* position of the caller in run_backtest / analyze_performance
    i,                 \* index into dates of the day the loop attempts next
    portfolio,         \* self.portfolio
    portfolio_values,  \* self.portfolio_values
    trades,            \* self.trades
    benchmark_values,  \* self.benchmark_values
    last,              \* the locals of the latest loop iteration, as it printed them
    report,            \* what analyze_performance computed or raised
    now,               \* datetime.now(): the day on which the program is run
    historical_data,   \* the frame market_data_agent got from get_price_data
    signals            \* what calculate_trading_signals returned or raised

vars == <<start_date, end_date, initial_capital, trading_workflow, market, pc, i,
          portfolio, portfolio_values, trades, benchmark_values, last, report, now,
          historical_data, signals>>

(***************************************************************************)
(* Bounds of the model.                                                    *)
(***************************************************************************)
MaxDate == 4
MaxPrice == 3
MaxCapital == 7
MaxQuantity == 4
MaxSeries == 3
MaxBars == 51
MaxVolume == 2

NoBar == 0
Prices == {MaxPrice - 1, MaxPrice}
Capitals == {0, MaxCapital}
OrderQuantities == {1, MaxQuantity}
AllDates == 0..MaxDate

\* The days on which the backtest may be run: the last day of the simulated
\* period or the day after it.  A run does not last into the next day.
WallClock == {MaxDate, MaxDate + 1}

Min(a, b) == IF a <= b THEN a ELSE b

(***************************************************************************)
(* The business-day calendar: pd.date_range(start, end, freq="B").         *)
(* Date 0 is a Thursday, so dates 2 and 3 are a weekend.                   *)
(***************************************************************************)
Weekday(d) == (d + 3) % 7

IsBusinessDay(d) == Weekday(d) < 5

DateRange(s, e) ==
    SelectSeq([k \in 1..(e - s + 1) |-> s + k - 1], IsBusinessDay)

dates == DateRange(start_date, end_date)

(***************************************************************************)
(* MarketDataService.get_price_data: the bars of [s, e], both inclusive;   *)
(* raises when the range holds no bar.                                     *)
(***************************************************************************)
HasBar(row) == row.close # NoBar

Bars(mkt, s, e) ==
    SelectSeq([k \in 1..(e - s + 1) |-> [date |-> s + k - 1, close |-> mkt[s + k - 1]]],
              HasBar)

GetPriceData(mkt, s, e) ==
    LET df == Bars(mkt, s, e)
    IN  [raised |-> df = <<>>, bars |-> df]

(***************************************************************************)
(* Decision texts.  The content of the workflow's final message is either  *)
(* text or something that is no string at all.                             *)
(***************************************************************************)
Line(k, v) == <<k, ":", " ", v, " ">>

Text(ls) == [is_str |-> TRUE, lines |-> ls]

Order(a, q) == Text(<<Line("action", a), Line("quantity", q),
                      <<"reasoning", ":", " ", "risk", ":", "low">>>>)

NonText == [is_str |-> FALSE, lines |-> <<>>]

HoldText == Order("hold", "0")

WellFormedTexts ==
    {Order(a, ToString(q)) : a \in {"buy", "sell"}, q \in OrderQuantities}
        \cup {HoldText, Order("buy", "-1")}

MalformedTexts ==
    {Text(<<<<"I would buy 1 share">>>>),
     Order("BUY", "1"),
     Order("buy", "ten"),
     NonText}

DecisionContents == WellFormedTexts \cup MalformedTexts

(***************************************************************************)
(* What trading_workflow.invoke does: it raises, or it returns a final     *)
(* message.  The always-hold workflow answers hold on every day.           *)
(***************************************************************************)
Workflows == {"always_hold", "llm"}

WorkflowResponses(wf) ==
    IF wf = "always_hold"
    THEN {[raised |-> FALSE, content |-> HoldText]}
    ELSE {[raised |-> FALSE, content |-> c] : c \in DecisionContents}
             \cup {[raised |-> TRUE, content |-> NonText]}

(***************************************************************************)
(* str.strip, ':' in line, line.split(':', 1) and int() on these texts.    *)
(***************************************************************************)
RECURSIVE Join(_)
Join(ps) == IF ps = <<>> THEN "" ELSE Head(ps) \o Join(Tail(ps))

RECURSIVE StripLeft(_)
StripLeft(ps) ==
    IF ps # <<>> /\ Head(ps) = " " THEN StripLeft(Tail(ps)) ELSE ps

RECURSIVE StripRight(_)
StripRight(ps) ==
    IF ps # <<>> /\ ps[Len(ps)] = " " THEN StripRight(SubSeq(ps, 1, Len(ps) - 1)) ELSE ps

Strip(ps) == Join(StripRight(StripLeft(ps)))

HasColon(line) == \E k \in 1..Len(line) : line[k] = ":"

FirstColon(line) == CHOOSE k \in 1..Len(line) :
                        line[k] = ":" /\ \A j \in 1..(k - 1) : line[j] # ":"

IntLiterals == -1..(MaxQuantity + 1)

PyInt(s) ==
    IF \E n \in IntLiterals : ToString(n) = s
    THEN [ok |-> TRUE, val |-> CHOOSE n \in IntLiterals : ToString(n) = s]
    ELSE [ok |-> FALSE, val |-> 0]

RECURSIVE DecisionDict(_, _)
DecisionDict(lines, decision) ==
    IF lines = <<>> THEN decision
    ELSE LET line == Head(lines)
             c == FirstColon(line)
             key == Strip(SubSeq(line, 1, c - 1))
             value == Strip(SubSeq(line, c + 1, Len(line)))
         IN  IF HasColon(line)
             THEN DecisionDict(Tail(lines), (key :> value) @@ decision)
             ELSE DecisionDict(Tail(lines), decision)

DictGet(decision, key, default) ==
    IF key \in DOMAIN decision THEN decision[key] ELSE default

(***************************************************************************)
(* Backtester.parse_trading_decision.                                      *)
(***************************************************************************)
ParseTradingDecision(result) ==
    IF ~result.is_str THEN [action |-> "hold", quantity |-> 0]
    ELSE LET decision == DecisionDict(result.lines, <<>>)
             q == PyInt(DictGet(decision, "quantity", "0"))
         IN  [action |-> DictGet(decision, "action", "hold"),
              quantity |-> IF q.ok THEN q.val ELSE 0]

\* parse_trading_decision on each content the workflow can return.
ParsedDecisions == [c \in DecisionContents |-> ParseTradingDecision(c)]

(***************************************************************************)
(* Backtester.execute_trade.  A trade record is what the code appends to   *)
(* self.trades; its date is read from the clock of the machine.           *)
(***************************************************************************)
\* Faulty variant: the total of a record is the price of one share.
TradeRecord_UnitTotal(action, quantity, price) ==
    [date |-> now, action |-> action, quantity |-> quantity, price |-> price,
     total |-> price]

TradeRecord(action, quantity, price) ==
    [date |-> now, action |-> action, quantity |-> quantity, price |-> price,
     total |-> quantity * price]

Filled(pf, tr, action, quantity, price, dcash, dstock) ==
    [portfolio |-> [cash |-> pf.cash + dcash, stock |-> pf.stock + dstock],
     trades |-> Append(tr, TradeRecord(action, quantity, price)),
     ret |-> quantity]

NoFill(pf, tr) == [portfolio |-> pf, trades |-> tr, ret |-> 0]

\* Faulty variant: the affordable quantity rounded up instead of down.
MaxAffordable_RoundsUp(cash, price) == (cash + price - 1) \div price

MaxAffordable(cash, price) == cash \div price

\* Faulty variant: a buy that is not affordable in full is rejected, never part filled.
BuyOrder_AllOrNothing(pf, tr, quantity, price) ==
    IF quantity * price <= pf.cash
    THEN Filled(pf, tr, "buy", quantity, price, -(quantity * price), quantity)
    ELSE NoFill(pf, tr)

\* Faulty variant: a partial fill changes the portfolio but is not logged.
BuyOrder_PartialUnrecorded(pf, tr, quantity, price) ==
    LET cost == quantity * price
        max_quantity == MaxAffordable(pf.cash, price)
    IN  IF cost <= pf.cash
        THEN Filled(pf, tr, "buy", quantity, price, -cost, quantity)
        ELSE IF max_quantity > 0
        THEN [portfolio |-> [cash |-> pf.cash - max_quantity * price,
                             stock |-> pf.stock + max_quantity],
              trades |-> tr, ret |-> max_quantity]
        ELSE NoFill(pf, tr)

BuyOrder(pf, tr, quantity, price) ==
    LET cost == quantity * price
        max_quantity == MaxAffordable(pf.cash, price)
    IN  IF cost <= pf.cash
        THEN Filled(pf, tr, "buy", quantity, price, -cost, quantity)
        ELSE IF max_quantity > 0
        THEN Filled(pf, tr, "buy", max_quantity, price,
                    -(max_quantity * price), max_quantity)
        ELSE NoFill(pf, tr)

\* Faulty variant: the requested quantity is sold without the cap at the shares held.
SellOrder_NoCap(pf, tr, requested, price) ==
    IF pf.stock > 0
    THEN Filled(pf, tr, "sell", requested, price, requested * price, -requested)
    ELSE NoFill(pf, tr)

\* Faulty variant: the proceeds are those of the requested quantity, not of the shares sold.
SellOrder_ProceedsOfRequested(pf, tr, requested, price) ==
    LET quantity == Min(requested, pf.stock)
    IN  IF quantity > 0
        THEN Filled(pf, tr, "sell", quantity, price, requested * price, -quantity)
        ELSE NoFill(pf, tr)

SellOrder(pf, tr, requested, price) ==
    LET quantity == Min(requested, pf.stock)
    IN  IF quantity > 0
        THEN Filled(pf, tr, "sell", quantity, price, quantity * price, -quantity)
        ELSE NoFill(pf, tr)

\* Faulty variant: the quantity > 0 guards are missing.
ExecuteTrade_NoQuantityGuard(pf, tr, action, quantity, price) ==
    IF action = "buy" THEN BuyOrder(pf, tr, quantity, price)
    ELSE IF action = "sell" THEN SellOrder(pf, tr, quantity, price)
    ELSE NoFill(pf, tr)

ExecuteTrade(pf, tr, action, quantity, price) ==
    IF action = "buy" /\ quantity > 0 THEN BuyOrder(pf, tr, quantity, price)
    ELSE IF action = "sell" /\ quantity > 0 THEN SellOrder(pf, tr, quantity, price)
    ELSE NoFill(pf, tr)

(***************************************************************************)
(* Backtester.simulate_buy_and_hold: one benchmark value per bar.          *)
(***************************************************************************)
\* Faulty variant: the cash the purchase leaves over is dropped from the value.
SimulateBuyAndHold_NoIdleCash(capital, price_data) ==
    LET initial_price == price_data[1].close
        shares == capital \div initial_price
    IN  [k \in 1..Len(price_data) |->
            [Date |-> price_data[k].date,
             PortfolioValue |-> shares * price_data[k].close]]

SimulateBuyAndHold(capital, price_data) ==
    LET initial_price == price_data[1].close
        shares == capital \div initial_price
        remaining_cash == capital - shares * initial_price
    IN  [k \in 1..Len(price_data) |->
            [Date |-> price_data[k].date,
             PortfolioValue |-> shares * price_data[k].close + remaining_cash]]

(***************************************************************************)
(* One iteration of the day loop of run_backtest: the try block and its    *)
(* except handler.                                                         *)
(***************************************************************************)
NoCall == [action |-> "", quantity |-> 0, price |-> 0, executed |-> 0]

NoIteration ==
    [status |-> "none", error |-> "none", date |-> 0, decision |-> NonText,
     call |-> NoCall]

\* Faulty variant: the shares are not valued at the price.
TotalValue_NoPrice(pf, current_price) == pf.cash + pf.stock

TotalValue(pf, current_price) == pf.cash + pf.stock * current_price

Snapshot(current_date, pf, current_price) ==
    [Date |-> current_date,
     PortfolioValue |-> TotalValue(pf, current_price),
     Cash |-> pf.cash,
     Stock |-> pf.stock,
     StockPrice |-> current_price]

\* Faulty variant: a failed day still records a snapshot of the portfolio.
ExceptHandler_Records(pf, tr, pv, current_date, decision, what) ==
    [portfolio |-> pf, trades |-> tr,
     portfolio_values |-> Append(pv, Snapshot(current_date, pf, 0)),
     last |-> [status |-> "error", error |-> what, date |-> current_date,
               decision |-> decision, call |-> NoCall]]

ExceptHandler(pf, tr, pv, current_date, decision, what) ==
    [portfolio |-> pf, trades |-> tr, portfolio_values |-> pv,
     last |-> [status |-> "error", error |-> what, date |-> current_date,
               decision |-> decision, call |-> NoCall]]

\* Faulty variant: the day's snapshot replaces the log instead of extending it.
TradeAndRecord_OverwritesLog(pf, tr, pv, current_date, decision, order, current_price) ==
    LET ex == ExecuteTrade(pf, tr, order.action, order.quantity, current_price)
    IN  [portfolio |-> ex.portfolio,
         trades |-> ex.trades,
         portfolio_values |-> <<Snapshot(current_date, ex.portfolio, current_price)>>,
         last |-> [status |-> "ok", error |-> "none", date |-> current_date,
                   decision |-> decision,
                   call |-> [action |-> order.action, quantity |-> order.quantity,
                             price |-> current_price, executed |-> ex.ret]]]

TradeAndRecord(pf, tr, pv, current_date, decision, order, current_price) ==
    LET ex == ExecuteTrade(pf, tr, order.action, order.quantity, current_price)
    IN  [portfolio |-> ex.portfolio,
         trades |-> ex.trades,
         portfolio_values |-> Append(pv, Snapshot(current_date, ex.portfolio, current_price)),
         last |-> [status |-> "ok", error |-> "none", date |-> current_date,
                   decision |-> decision,
                   call |-> [action |-> order.action, quantity |-> order.quantity,
                             price |-> current_price, executed |-> ex.ret]]]

RunDay(pf, tr, pv, mkt, current_date, response) ==
    IF response.raised
    THEN ExceptHandler(pf, tr, pv, current_date, NonText, "workflow")
    ELSE LET decision == response.content
             order == ParsedDecisions[decision]
             df == GetPriceData(mkt, current_date, current_date)
         IN  IF df.raised
             THEN ExceptHandler(pf, tr, pv, current_date, decision, "price")
             ELSE TradeAndRecord(pf, tr, pv, current_date, decision, order,
                                 df.bars[Len(df.bars)].close)

\* Faulty variant: the exception of a failed day leaves the loop.
AfterDay_Reraises(status, next, n) ==
    IF status = "error" THEN "raised"
    ELSE IF next > n THEN "completed" ELSE "running"

\* The for loop: the next date if there is one, else run_backtest returns.
AfterDay(status, next, n) == IF next > n THEN "completed" ELSE "running"

(***************************************************************************)
(* calculate_max_drawdown of analyze_performance on a value series:        *)
(* min over t of v[t] / cummax(v)[t] - 1, kept as an exact fraction.  A    *)
(* quotient 0/0 is NaN, which min() skips; all NaN gives NaN.              *)
(***************************************************************************)
\* Faulty variant: the peak of the whole series instead of the running peak.
CumMax_GlobalMax(values) ==
    [t \in 1..Len(values) |->
        CHOOSE top \in {values[k] : k \in 1..Len(values)} :
            \A k \in 1..Len(values) : values[k] <= top]

CumMax(values) ==
    [t \in 1..Len(values) |->
        CHOOSE top \in {values[k] : k \in 1..t} :
            \A k \in 1..t : values[k] <= top]

Drawdowns(values) ==
    LET rolling_max == CumMax(values)
    IN  [t \in 1..Len(values) |->
            IF rolling_max[t] = 0
            THEN [kind |-> IF values[t] = 0 THEN "nan" ELSE "inf", num |-> 0, den |-> 1]
            ELSE [kind |-> "num", num |-> values[t] - rolling_max[t],
                  den |-> rolling_max[t]]]

FracLeq(a, b) == a.num * b.den * (IF a.den * b.den > 0 THEN 1 ELSE -1)
                     <= b.num * a.den * (IF a.den * b.den > 0 THEN 1 ELSE -1)

CalculateMaxDrawdown(values) ==
    LET dd == Drawdowns(values)
        nums == {t \in 1..Len(values) : dd[t].kind = "num"}
    IN  IF \E t \in 1..Len(values) : dd[t].kind = "inf"
        THEN [kind |-> "inf", num |-> 0, den |-> 1]
        ELSE IF nums = {}
        THEN [kind |-> "nan", num |-> 0, den |-> 1]
        ELSE dd[CHOOSE t \in nums : \A u \in nums : FracLeq(dd[t], dd[u])]

ValueSeries(rows) == [k \in 1..Len(rows) |-> rows[k].PortfolioValue]

NoReport == [status |-> "none"]

AnalyzePerformance(pv, bv) ==
    IF pv = <<>>
    THEN [status |-> "ValueError"]
    ELSE [status |-> "ok",
          strategy_max_drawdown |-> CalculateMaxDrawdown(ValueSeries(pv)),
          benchmark_max_drawdown |-> CalculateMaxDrawdown(ValueSeries(bv)),
          final_value |-> pv[Len(pv)].PortfolioValue]

(***************************************************************************)
(* MarketDataService.calculate_trading_signals.  A frame is its close and  *)
(* volume columns; a cell of a computed column is NaN, an exact fraction,  *)
(* or a float whose value is not computed here (the exponential averages   *)
(* and the standard deviation): of those only "is it NaN" is kept.         *)
(***************************************************************************)
Sma5Window == 5
Sma20Window == 20
Sma50Window == 50
VolumeWindow == 20
RsiWindow == 14
VolatilityWindow == 20
RsiScale == 100

NaN == [kind |-> "nan", num |-> 0, den |-> 1]

Inf == [kind |-> "inf", num |-> 0, den |-> 1]

Float == [kind |-> "float", num |-> 0, den |-> 1]

Number(n, d) == [kind |-> "num", num |-> n, den |-> d]

Zero == Number(0, 1)

RECURSIVE WindowSum(_, _, _)
WindowSum(series, from, to) ==
    IF from > to THEN 0 ELSE series[to] + WindowSum(series, from, to - 1)

\* Series.rolling(window).mean() of a column of numbers.
RollingMean(series, window) ==
    [t \in 1..Len(series) |->
        IF t < window THEN NaN
        ELSE Number(WindowSum(series, t - window + 1, t), window)]

\* Series.diff(): the first cell has no predecessor.
Diff(series) ==
    [t \in 1..Len(series) |->
        IF t = 1 THEN NaN ELSE Number(series[t] - series[t - 1], 1)]

\* delta.where(delta > 0, 0): NaN > 0 is false.
Gains(delta) ==
    [t \in 1..Len(delta) |->
        LET d == delta[t]
        IN  IF d.kind = "num" /\ d.num > 0 THEN d.num ELSE 0]

\* -delta.where(delta < 0, 0)
Losses(delta) ==
    [t \in 1..Len(delta) |->
        LET d == delta[t]
        IN  IF d.kind = "num" /\ d.num < 0 THEN -d.num ELSE 0]

\* gain / loss: 0 / 0 is NaN, x / 0 is inf.
Divide(gain, loss) ==
    [t \in 1..Len(gain) |->
        LET g == gain[t]
            l == loss[t]
        IN  IF g.kind = "nan" \/ l.kind = "nan" THEN NaN
            ELSE IF l.num = 0 THEN (IF g.num = 0 THEN NaN ELSE Inf)
            ELSE Number(g.num * l.den, g.den * l.num)]

\* 100 - (100 / (1 + rs)); 100 / inf is 0.
Rsi(rs) ==
    [t \in 1..Len(rs) |->
        LET r == rs[t]
        IN  IF r.kind = "nan" THEN NaN
            ELSE IF r.kind = "inf" THEN Number(RsiScale, 1)
            ELSE Number(RsiScale * (r.den + r.num) - RsiScale * r.den,
                        r.den + r.num)]

\* Series.ewm(span, adjust=False).mean(): a value from the first bar on.
Ewm(series) == [t \in 1..Len(series) |-> Float]

\* Series.pct_change(): the first cell has no predecessor.
PctChange(series) ==
    [t \in 1..Len(series) |->
        IF t = 1 THEN NaN
        ELSE IF series[t - 1] = 0
        THEN (IF series[t] = 0 THEN NaN ELSE Inf)
        ELSE Number(series[t] - series[t - 1], series[t - 1])]

\* Series.rolling(window).std() * np.sqrt(252): NaN unless the window holds
\* window numbers.
RollingStd(series, window) ==
    [t \in 1..Len(series) |->
        IF t < window \/ \E k \in (t - window + 1)..t : series[k].kind # "num"
        THEN NaN ELSE Float]

\* Faulty variant: the NaN cells are left in the frame.
FillNa_Omitted(cell) == cell

\* DataFrame.fillna(0) on one cell.
FillNa(cell) == IF cell.kind = "nan" THEN Zero ELSE cell

NoHistory == [close |-> <<>>, volume |-> <<>>]

NoSignals == [status |-> "none"]

\* The columns the function adds to the frame stay with the frame, which
\* its callers drop; what it returns is the last row after fillna(0).
CalculateTradingSignals(df) ==
    IF df.close = <<>>
    THEN [status |-> "Exception"]
    ELSE LET n == Len(df.close)
             delta == Diff(df.close)
             gain == RollingMean(Gains(delta), RsiWindow)
             loss == RollingMean(Losses(delta), RsiWindow)
             macd == Ewm(df.close)
         IN  [status |-> "ok",
              current_price |-> df.close[n],
              sma_5 |-> FillNa(RollingMean(df.close, Sma5Window)[n]),
              sma_20 |-> FillNa(RollingMean(df.close, Sma20Window)[n]),
              sma_50 |-> FillNa(RollingMean(df.close, Sma50Window)[n]),
              volume |-> df.volume[n],
              avg_volume |-> FillNa(RollingMean(df.volume, VolumeWindow)[n]),
              rsi |-> FillNa(Rsi(Divide(gain, loss))[n]),
              macd |-> FillNa(macd[n]),
              macd_signal |-> FillNa(Ewm(macd)[n]),
              volatility |->
                  FillNa(RollingStd(PctChange(df.close), VolatilityWindow)[n])]

(***************************************************************************)
(* The state machine.                                                      *)
(***************************************************************************)
Markets == {m \in [AllDates -> Prices \cup {NoBar}] :
                \A d \in AllDates : ~IsBusinessDay(d) => m[d] = NoBar}

Init ==
    /\ start_date \in 0..1
    /\ end_date \in {0, MaxDate}
    /\ initial_capital \in Capitals
    /\ trading_workflow \in Workflows
    /\ market \in Markets
    /\ pc = "not_started"
    /\ i = 1
    /\ portfolio = [cash |-> initial_capital, stock |-> 0]
    /\ portfolio_values = <<>>
    /\ trades = <<>>
    /\ benchmark_values = <<>>
    /\ last = NoIteration
    /\ report = NoReport
    /\ now \in WallClock
    /\ historical_data = NoHistory
    /\ signals = NoSignals

\* Faulty variant: a failed benchmark fetch is swallowed and the loop is entered.
StartBacktest_SwallowsError ==
    /\ pc = "not_started"
    /\ LET complete_data == GetPriceData(market, start_date, end_date)
       IN  /\ benchmark_values' =
                  IF complete_data.raised THEN <<>>
                  ELSE SimulateBuyAndHold(initial_capital, complete_data.bars)
           /\ pc' = AfterDay("none", 1, Len(dates))
    /\ UNCHANGED <<start_date, end_date, initial_capital, trading_workflow, market,
                   i, portfolio, portfolio_values, trades, last, report, now,
                   historical_data, signals>>

\* run_backtest up to the day loop: the benchmark fetch and simulation.
StartBacktest ==
    /\ pc = "not_started"
    /\ LET complete_data == GetPriceData(market, start_date, end_date)
       IN  IF complete_data.raised
           THEN /\ pc' = "raised"
                /\ UNCHANGED benchmark_values
           ELSE /\ benchmark_values' =
                       SimulateBuyAndHold(initial_capital, complete_data.bars)
                /\ pc' = AfterDay("none", 1, Len(dates))
    /\ UNCHANGED <<start_date, end_date, initial_capital, trading_workflow, market,
                   i, portfolio, portfolio_values, trades, last, report, now,
                   historical_data, signals>>

\* One iteration of the day loop.
DayStep ==
    /\ pc = "running"
    /\ \E response \in WorkflowResponses(trading_workflow) :
          \E r \in {RunDay(portfolio, trades, portfolio_values, market, dates[i],
                            response)} :
              /\ portfolio' = r.portfolio
              /\ trades' = r.trades
              /\ portfolio_values' = r.portfolio_values
              /\ last' = r.last
              /\ i' = i + 1
              /\ pc' = AfterDay(r.last.status, i + 1, Len(dates))
    /\ UNCHANGED <<start_date, end_date, initial_capital, trading_workflow, market,
                   benchmark_values, report, now, historical_data, signals>>

\* analyze_performance, called once run_backtest has returned.
Analyze ==
    /\ pc = "completed"
    /\ report' = AnalyzePerformance(portfolio_values, benchmark_values)
    /\ pc' = "analyzed"
    /\ UNCHANGED <<start_date, end_date, initial_capital, trading_workflow, market,
                   i, portfolio, portfolio_values, trades, benchmark_values, last,
                   now, historical_data, signals>>

Next == StartBacktest \/ DayStep \/ Analyze

Spec == Init /\ [][Next]_vars

\* The loop is sequential code: an iteration that can run does run.  The
\* clock is read only to date the trade records and decides no branch, so
\* progress is checked with the program run on the day after the period.
LiveInit == Init /\ now = MaxDate + 1

LiveSpec == LiveInit /\ [][Next]_vars /\ WF_vars(DayStep)

(***************************************************************************)
(* calculate_max_drawdown on its own: analyze_performance after a run over *)
(* closes value[1..n], n in 1..MaxSeries, in which the oracle bought one   *)
(* share with all the capital on the first day and held it, so that the    *)
(* snapshot values (and the benchmark's) are the closes.                   *)
(***************************************************************************)
SeriesInputs == UNION {[1..n -> 1..MaxCapital] : n \in 1..MaxSeries}

HeldShare == [cash |-> 0, stock |-> 1]

DrawdownInit ==
    \E values \in SeriesInputs :
        LET n == Len(values)
            days == DateRange(0, MaxDate)
        IN  /\ start_date = 0
            /\ end_date = days[n]
            /\ initial_capital = values[1]
            /\ trading_workflow = "llm"
            /\ market = [d \in AllDates |->
                             IF \E k \in 1..n : days[k] = d
                             THEN values[CHOOSE k \in 1..n : days[k] = d]
                             ELSE NoBar]
            /\ pc = "completed"
            /\ i = n + 1
            /\ portfolio = HeldShare
            /\ portfolio_values =
                   [k \in 1..n |-> Snapshot(days[k], HeldShare, values[k])]
            /\ now = MaxDate + 1
            /\ trades = <<TradeRecord("buy", 1, values[1])>>
            /\ benchmark_values =
                   SimulateBuyAndHold(values[1], Bars(market, 0, days[n]))
            /\ last = [status |-> "ok", error |-> "none", date |-> days[n],
                       decision |-> IF n = 1 THEN Order("buy", "1") ELSE HoldText,
                       call |-> IF n = 1
                                THEN [action |-> "buy", quantity |-> 1,
                                      price |-> values[1], executed |-> 1]
                                ELSE [action |-> "hold", quantity |-> 0,
                                      price |-> values[n], executed |-> 0]]
            /\ report = NoReport
            /\ historical_data = NoHistory
            /\ signals = NoSignals

DrawdownSpec == DrawdownInit /\ [][Analyze]_vars

(***************************************************************************)
(* calculate_trading_signals on its own: market_data_agent on frames of 1  *)
(* to MaxBars bars whose close and volume change once, at any bar; the     *)
(* backtest's variables are at rest in the state of construction.          *)
(***************************************************************************)
Volumes == {0, MaxVolume}

Steps(n, a, before, after) == [k \in 1..n |-> IF k <= a THEN before ELSE after]

\* The frames of n bars.
HistoryInputs(n) ==
    {[close |-> Steps(n, a, x, y), volume |-> Steps(n, a, u, w)] :
        a \in 0..(n - 1), x \in Prices, y \in Prices,
        u \in Volumes, w \in Volumes}

SignalsInit ==
    /\ start_date = 0
    /\ end_date = MaxDate
    /\ initial_capital = MaxCapital
    /\ trading_workflow = "llm"
    /\ market = [d \in AllDates |-> IF IsBusinessDay(d) THEN MaxPrice ELSE NoBar]
    /\ pc = "market_data"
    /\ i = 1
    /\ portfolio = [cash |-> initial_capital, stock |-> 0]
    /\ portfolio_values = <<>>
    /\ trades = <<>>
    /\ benchmark_values = <<>>
    /\ last = NoIteration
    /\ report = NoReport
    /\ now = MaxDate + 1
    /\ \E n \in 1..MaxBars : historical_data \in HistoryInputs(n)
    /\ signals = NoSignals

\* market_data_agent: the signals of the frame it fetched.
MarketDataAgent ==
    /\ pc = "market_data"
    /\ signals' = CalculateTradingSignals(historical_data)
    /\ pc' = "quant"
    /\ UNCHANGED <<start_date, end_date, initial_capital, trading_workflow, market,
                   i, portfolio, portfolio_values, trades, benchmark_values, last,
                   report, now, historical_data>>

SignalsSpec == SignalsInit /\ [][MarketDataAgent]_vars

(***************************************************************************)
(* Properties.  A step of the day loop is an iteration; when it did not    *)
(* fail, execute_trade was called with the arguments kept in last'.call.   *)
(***************************************************************************)
Iterated == i' = i + 1

Called == Iterated /\ last'.status = "ok"

\* C1: with initial_capital >= 0, after any sequence of execute_trade calls
\* (any action, any integer quantity, prices > 0) cash >= 0 and shares >= 0.
C1_LedgerNeverNegative ==
    initial_capital >= 0 => portfolio.cash >= 0 /\ portfolio.stock >= 0

\* A sell of more than is held, after a buy, has emptied the position.
C1_Witness ==
    /\ last.status = "ok"
    /\ last.call.action = "sell"
    /\ last.call.quantity > last.call.executed
    /\ last.call.executed > 0
    /\ portfolio.stock = 0
    /\ Len(trades) >= 2

\* C2: a buy of q > 0 at p > 0 fills min(q, floor(cash / p)), returns the
\* fill, takes fill * p from cash and adds fill to the shares; after a
\* partial fill the cash left is below p and a further buy at p fills 0.
C2_BuyFill ==
    [][(Called /\ last'.call.action = "buy" /\ last'.call.quantity > 0) =>
          LET q == last'.call.quantity
              p == last'.call.price
              fill == Min(q, portfolio.cash \div p)
          IN  /\ p > 0
              /\ q * p <= portfolio.cash => fill = q
              /\ last'.call.executed = fill
              /\ portfolio'.cash = portfolio.cash - fill * p
              /\ portfolio'.stock = portfolio.stock + fill
              /\ fill < q =>
                    /\ portfolio'.cash < p
                    /\ \A q2 \in 1..(MaxQuantity + 1) :
                          ExecuteTrade(portfolio', trades', "buy", q2, p).ret = 0]_vars

\* A buy was filled in part.
C2_Witness ==
    /\ last.status = "ok"
    /\ last.call.action = "buy"
    /\ last.call.executed > 0
    /\ last.call.executed < last.call.quantity

\* C3: a sell of q > 0 at p fills min(q, shares held), adds fill * p to cash
\* and takes fill from the shares; with no shares nothing is executed and 0
\* is returned; with q above the shares held all of them are sold.
C3_SellFill ==
    [][(Called /\ last'.call.action = "sell" /\ last'.call.quantity > 0) =>
          LET q == last'.call.quantity
              p == last'.call.price
              fill == Min(q, portfolio.stock)
          IN  /\ last'.call.executed = fill
              /\ portfolio'.cash = portfolio.cash + fill * p
              /\ portfolio'.stock = portfolio.stock - fill
              /\ portfolio.stock = 0 =>
                    portfolio' = portfolio /\ trades' = trades /\ last'.call.executed = 0
              /\ q > portfolio.stock => portfolio'.stock = 0]_vars

\* A sell of fewer shares than are held was filled in full.
C3_Witness ==
    /\ last.status = "ok"
    /\ last.call.action = "sell"
    /\ last.call.executed = last.call.quantity
    /\ last.call.quantity > 0
    /\ portfolio.stock > 0

\* C4: execute_trade with hold, with any action other than buy and sell, or
\* with a quantity <= 0, leaves cash and shares alone, logs nothing and
\* returns 0.
C4_HoldIsNoOp ==
    [][(Called /\ (last'.call.action \notin {"buy", "sell"} \/ last'.call.quantity <= 0)) =>
          /\ portfolio' = portfolio
          /\ trades' = trades
          /\ last'.call.executed = 0]_vars

\* A buy of a negative quantity arrived while shares were held.
C4_Witness ==
    /\ last.status = "ok"
    /\ last.call.action = "buy"
    /\ last.call.quantity < 0
    /\ portfolio.stock > 0

\* C5: a call changes the portfolio iff it appends exactly one trade record
\* iff it returns a nonzero fill; the record holds the fill, the execution
\* price and total = quantity * price; a fully rejected order logs nothing.
C5_RecordIffFill ==
    [][Called =>
          LET c == last'.call
              n == Len(trades)
              appended == /\ Len(trades') = n + 1
                          /\ SubSeq(trades', 1, n) = trades
          IN  /\ trades' = trades \/ appended
              /\ (portfolio' # portfolio) <=> appended
              /\ appended <=> (c.executed # 0)
              /\ appended =>
                    /\ trades'[n + 1].action = c.action
                    /\ trades'[n + 1].quantity = c.executed
                    /\ trades'[n + 1].price = c.price
                    /\ trades'[n + 1].total = c.executed * c.price
              /\ (c.action = "buy" /\ portfolio.cash < c.price) => trades' = trades
              /\ (c.action = "sell" /\ portfolio.stock = 0) => trades' = trades]_vars

\* A buy was rejected in full: not one share was affordable.
C5_Witness ==
    /\ last.status = "ok"
    /\ last.call.action = "buy"
    /\ last.call.quantity > 0
    /\ last.call.executed = 0
    /\ portfolio.cash < last.call.price
    /\ Len(trades) >= 1

\* C6: when a step of a simulated day fails, in particular when the price
\* source has no data for the day, the day is skipped: no snapshot and no
\* trade record is appended and cash and shares are as before the day.
C6_FailedDaySkipped ==
    [][(Iterated /\ (last'.status = "error" \/ market[dates[i]] = NoBar)) =>
          /\ last'.status = "error"
          /\ portfolio' = portfolio
          /\ trades' = trades
          /\ portfolio_values' = portfolio_values]_vars

\* A day without a bar was skipped although its decision was a buy that the
\* cash at hand would have paid for.
C6_Witness ==
    /\ last.status = "error"
    /\ last.error = "price"
    /\ last.decision = Order("buy", "1")
    /\ portfolio.cash >= MaxPrice
    /\ Len(portfolio_values) >= 1

\* C7: once the day loop has started run_backtest runs to completion: every
\* business day of the range is attempted in turn whatever days fail, the
\* run ends completed, and a day that does not fail right after a failed
\* day gets its snapshot, computed from the portfolio the last successful
\* day left.
C7_RunCompletes ==
    /\ (pc = "running") ~> (pc = "completed")
    /\ [][pc = "running" =>
             /\ i <= Len(dates)
             /\ Iterated
             /\ last'.date = dates[i]
             /\ pc' = IF i = Len(dates) THEN "completed" ELSE "running"]_vars
    /\ [][(Called /\ last.status = "error") =>
             LET c == last'.call
                 ex == ExecuteTrade(portfolio, trades, c.action, c.quantity, c.price)
             IN  portfolio_values' =
                    Append(portfolio_values,
                           [Date |-> dates[i],
                            PortfolioValue |-> ex.portfolio.cash + ex.portfolio.stock * c.price,
                            Cash |-> ex.portfolio.cash,
                            Stock |-> ex.portfolio.stock,
                            StockPrice |-> c.price])]_vars

\* A run completed on a day that was processed, with earlier days skipped
\* while shares were held.
C7_Witness ==
    /\ pc = "completed"
    /\ last.status = "ok"
    /\ Len(portfolio_values) >= 2
    /\ Len(portfolio_values) < Len(dates)
    /\ portfolio.stock > 0

\* C8: when the oracle raises or returns a malformed decision on a day (that
\* has a price), the day is processed as a hold day: cash and shares are
\* unchanged, no trade record is appended, and the snapshot is recorded.
C8_OracleFailureIsHoldDay ==
    [][(Iterated /\ market[dates[i]] # NoBar
           /\ (last'.error = "workflow" \/ last'.decision \in MalformedTexts)) =>
          /\ portfolio' = portfolio
          /\ trades' = trades
          /\ Len(portfolio_values') = Len(portfolio_values) + 1
          /\ portfolio_values'[Len(portfolio_values')].Date = dates[i]]_vars

\* C9: every snapshot has portfolio_value = cash + shares * price, where cash
\* and shares are the ledger after the day's order and price is the day's
\* close, the price the order was executed at.
C9_SnapshotMarkToMarket ==
    /\ \A k \in 1..Len(portfolio_values) :
          LET snap == portfolio_values[k]
          IN  /\ snap.PortfolioValue = snap.Cash + snap.Stock * snap.StockPrice
              /\ snap.StockPrice = market[snap.Date]
    /\ last.status = "ok" =>
          LET snap == portfolio_values[Len(portfolio_values)]
          IN  /\ snap.Date = last.date
              /\ snap.Cash = portfolio.cash
              /\ snap.Stock = portfolio.stock
              /\ snap.StockPrice = last.call.price

\* A snapshot was taken on a day whose order was filled, with shares held.
C9_Witness ==
    /\ last.status = "ok"
    /\ last.call.executed > 0
    /\ portfolio.stock > 1
    /\ portfolio.cash > 0
    /\ Len(portfolio_values) >= 2

\* C10: with an oracle that answers hold every day, for any closes and any
\* initial_capital, every snapshot has portfolio_value = initial_capital
\* (cash = initial_capital, shares = 0), the trade log stays empty, and the
\* strategy's max drawdown is 0.
IsZero(x) == x.kind = "num" /\ x.num = 0

C10_HoldRunKeepsCapital ==
    trading_workflow = "always_hold" =>
        /\ \A k \in 1..Len(portfolio_values) :
              /\ portfolio_values[k].PortfolioValue = initial_capital
              /\ portfolio_values[k].Cash = initial_capital
              /\ portfolio_values[k].Stock = 0
        /\ trades = <<>>
        /\ report.status = "ok" => IsZero(report.strategy_max_drawdown)

\* C11: simulate_buy_and_hold appends one benchmark value per bar of the
\* range, in bar order; each is shares * close + idle_cash, where shares is
\* floor(initial_capital / first_close) and idle_cash is what the purchase
\* left over, 0 <= idle_cash < first_close; the first value is
\* initial_capital.
C11_BenchmarkBuyAndHold ==
    pc \notin {"not_started", "raised"} =>
        LET bar_dates == {d \in start_date..end_date : market[d] # NoBar}
            first == CHOOSE d \in bar_dates : \A e \in bar_dates : d <= e
            first_close == market[first]
            shares == CHOOSE s \in 0..initial_capital :
                          s * first_close <= initial_capital
                              /\ initial_capital < (s + 1) * first_close
            idle_cash == initial_capital - shares * first_close
            n == Len(benchmark_values)
        IN  /\ n = Cardinality(bar_dates)
            /\ \A k \in 1..n : benchmark_values[k].Date \in bar_dates
            /\ \A k \in 1..(n - 1) :
                  benchmark_values[k].Date < benchmark_values[k + 1].Date
            /\ \A k \in 1..n :
                  benchmark_values[k].PortfolioValue =
                      shares * market[benchmark_values[k].Date] + idle_cash
            /\ 0 <= idle_cash
            /\ idle_cash < first_close
            /\ benchmark_values[1].PortfolioValue = initial_capital

\* A benchmark over several bars with different closes, bought with cash
\* left idle.
C11_Witness ==
    /\ Len(benchmark_values) >= 3
    /\ benchmark_values[1].PortfolioValue = initial_capital
    /\ benchmark_values[2].PortfolioValue # initial_capital
    /\ initial_capital > 0
    /\ \A k \in 1..Len(benchmark_values) :
          benchmark_values[k].PortfolioValue
              # (initial_capital \div market[benchmark_values[1].Date])
                    * market[benchmark_values[k].Date]

\* C12: when the price source has no data for the whole range, the benchmark
\* fetch at the start of run_backtest raises and the run ends there: the
\* exception leaves run_backtest, no day is simulated, nothing follows, and
\* the snapshot log, the trade log and the portfolio are as constructed.
C12_BenchmarkFetchFailureIsFatal ==
    /\ []((pc # "not_started"
              /\ \A d \in start_date..end_date : market[d] = NoBar) =>
                 pc = "raised")
    /\ [](pc = "raised" =>
             /\ i = 1
             /\ last = NoIteration
             /\ portfolio_values = <<>>
             /\ trades = <<>>
             /\ portfolio = [cash |-> initial_capital, stock |-> 0]
             /\ benchmark_values = <<>>
             /\ report = NoReport)
    /\ [][pc # "raised"]_vars

\* The fetch failed for a run with business days to simulate, money to
\* spend and an oracle that places orders.
C12_Witness ==
    /\ pc = "raised"
    /\ Len(dates) >= 2
    /\ initial_capital > 0
    /\ trading_workflow = "llm"

\* C13: a run with end_date before start_date or with initial_capital <= 0
\* is rejected before any simulation work: no price history is obtained,
\* the oracle is not queried, the ledger is not touched and no snapshot is
\* taken.  The only failure the code has before the day loop is the failed
\* benchmark fetch, which is let pass as the rejection here.
C13_InvalidConfigurationRejected ==
    (end_date < start_date \/ initial_capital <= 0) =>
        /\ pc \in {"not_started", "raised"}
        /\ i = 1
        /\ last = NoIteration
        /\ benchmark_values = <<>>
        /\ portfolio_values = <<>>
        /\ trades = <<>>
        /\ portfolio = [cash |-> initial_capital, stock |-> 0]

\* C14: analyze_performance fails when fewer than 2 snapshots were recorded
\* (0 or exactly 1) and computes a report only from at least 2 snapshots.
C14_ReportNeedsTwoSnapshots ==
    pc = "analyzed" =>
        /\ Len(portfolio_values) < 2 => report.status # "ok"
        /\ report.status = "ok" => Len(portfolio_values) >= 2
        /\ Len(portfolio_values) >= 2 => report.status = "ok"

\* C19: an execute_trade call at price p leaves cash + shares * p as it was,
\* for every action and quantity.
C19_TradeConservesValue ==
    [][Called =>
          LET p == last'.call.price
          IN  portfolio'.cash + portfolio'.stock * p
                  = portfolio.cash + portfolio.stock * p]_vars

\* Shares bought at one price were sold at another, the order capped at the
\* shares held.
C19_Witness ==
    /\ last.status = "ok"
    /\ last.call.action = "sell"
    /\ last.call.executed > 0
    /\ last.call.executed < last.call.quantity
    /\ Len(trades) >= 2
    /\ trades[1].price # last.call.price

\* The sum of a field over the records of one action.
RECURSIVE SumOver(_, _, _)
SumOver(tr, action, field) ==
    IF tr = <<>> THEN 0
    ELSE (IF Head(tr).action = action THEN Head(tr)[field] ELSE 0)
             + SumOver(Tail(tr), action, field)

\* C20: in every reachable state the shares held are the quantities bought
\* less the quantities sold, and the cash is initial_capital less the totals
\* of the buy records plus the totals of the sell records.
C20_LedgerReconcilesWithTrades ==
    /\ portfolio.stock =
           SumOver(trades, "buy", "quantity") - SumOver(trades, "sell", "quantity")
    /\ portfolio.cash =
           initial_capital - SumOver(trades, "buy", "total")
               + SumOver(trades, "sell", "total")
    /\ \A k \in 1..Len(trades) : trades[k].action \in {"buy", "sell"}

\* Buys and sells at different prices are on the log, one of them a partial
\* fill, and shares are still held.
C20_Witness ==
    /\ Len(trades) >= 3
    /\ \E j, k \in 1..Len(trades) :
          /\ trades[j].action = "buy"
          /\ trades[k].action = "sell"
          /\ trades[j].price # trades[k].price
    /\ last.status = "ok"
    /\ last.call.action = "buy"
    /\ last.call.executed > 0
    /\ last.call.executed < last.call.quantity

\* C17: the snapshot log holds at most one snapshot per business day of the
\* run, its dates strictly increasing and none on a weekend; an iteration
\* appends the day's snapshot exactly when no step of the day failed (the
\* oracle answered and the day has a price); no step changes or removes a
\* snapshot already on the log.
C17_SnapshotLogAppendOnly ==
    /\ [](LET n == Len(portfolio_values)
          IN  /\ n <= Len(dates)
              /\ \A k \in 1..n :
                    /\ IsBusinessDay(portfolio_values[k].Date)
                    /\ \E j \in 1..Len(dates) : dates[j] = portfolio_values[k].Date
              /\ \A k \in 1..(n - 1) :
                    portfolio_values[k].Date < portfolio_values[k + 1].Date)
    /\ [][Iterated =>
             LET n == Len(portfolio_values)
                 appended == /\ Len(portfolio_values') = n + 1
                             /\ portfolio_values'[n + 1].Date = dates[i]
                 failed == last'.error = "workflow" \/ market[dates[i]] = NoBar
             IN  /\ appended <=> ~failed
                 /\ failed => portfolio_values' = portfolio_values]_vars
    /\ [][/\ Len(portfolio_values') >= Len(portfolio_values)
          /\ SubSeq(portfolio_values', 1, Len(portfolio_values))
                 = portfolio_values]_vars

\* The log holds the Thursday and the Monday after it; the Friday between
\* them was skipped.
C17_Witness ==
    /\ Len(dates) = 3
    /\ Len(portfolio_values) = 2
    /\ portfolio_values[2].Date - portfolio_values[1].Date > 3
    /\ last.status = "ok"

\* C18: every trade record appended during run_backtest carries as its date
\* the simulated day on which the order was executed, the date of the
\* snapshot recorded for that day; so the dates on the trade log never
\* decrease and lie within [start_date, end_date].
C18_TradeDateIsSimulatedDay ==
    /\ [][(Called /\ trades' # trades) =>
             /\ trades'[Len(trades')].date = dates[i]
             /\ trades'[Len(trades')].date
                    = portfolio_values'[Len(portfolio_values')].Date]_vars
    /\ [](/\ \A k \in 1..Len(trades) :
                 start_date <= trades[k].date /\ trades[k].date <= end_date
          /\ \A k \in 1..(Len(trades) - 1) : trades[k].date <= trades[k + 1].date)

\* C15: for every non-empty series of positive values the max drawdown, the
\* least over t of value[t] / max(value[1..t]) - 1, is a number <= 0; it is
\* 0 exactly when no value is below the running peak, in particular for
\* every non-decreasing series.
C15_MaxDrawdownNonPositive ==
    report.status = "ok" =>
        LET value == [k \in 1..Len(portfolio_values) |->
                         portfolio_values[k].PortfolioValue]
            n == Len(value)
            peak == [t \in 1..n |->
                        CHOOSE m \in {value[k] : k \in 1..t} :
                            \A k \in 1..t : value[k] <= m]
            dd == report.strategy_max_drawdown
        IN  (n > 0 /\ \A t \in 1..n : value[t] > 0) =>
                /\ report.benchmark_max_drawdown = dd
                /\ dd.kind = "num"
                /\ dd.den > 0
                /\ dd.num <= 0
                /\ \E t \in 1..n : dd.num * peak[t] = (value[t] - peak[t]) * dd.den
                /\ \A t \in 1..n : dd.num * peak[t] <= (value[t] - peak[t]) * dd.den
                /\ (dd.num = 0) <=> (\A t \in 1..n : value[t] >= peak[t])
                /\ (\A t \in 1..(n - 1) : value[t] <= value[t + 1]) => dd.num = 0

\* The drawdown of a series that fell and then rose to a new peak.
C15_Witness ==
    /\ report.status = "ok"
    /\ Len(portfolio_values) = 3
    /\ portfolio_values[2].PortfolioValue < portfolio_values[1].PortfolioValue
    /\ portfolio_values[3].PortfolioValue > portfolio_values[1].PortfolioValue
    /\ report.strategy_max_drawdown.kind = "num"
    /\ report.strategy_max_drawdown.num < 0

\* The sum of a sequence of numbers.
RECURSIVE SeqSum(_)
SeqSum(xs) == IF xs = <<>> THEN 0 ELSE Head(xs) + SeqSum(Tail(xs))

\* C16: calculate_trading_signals reports every indicator computed over a
\* window as 0, never as NaN, while the frame has fewer bars than the
\* window; sma_50 is 0 for 1 to 49 bars whatever the prices, and from 50 bars
\* on it is the arithmetic mean of the last 50 closes.
C16_WarmUpReadsZero ==
    signals.status = "ok" =>
        LET close == historical_data.close
            n == Len(close)
            window == [sma_5 |-> Sma5Window, sma_20 |-> Sma20Window,
                       sma_50 |-> Sma50Window, avg_volume |-> VolumeWindow,
                       rsi |-> RsiWindow, volatility |-> VolatilityWindow]
        IN  /\ \A name \in DOMAIN window :
                  /\ signals[name].kind # "nan"
                  /\ n < window[name] => signals[name] = [kind |-> "num", num |-> 0, den |-> 1]
            /\ n >= 50 =>
                  /\ signals.sma_50.kind = "num"
                  /\ signals.sma_50.den > 0
                  /\ signals.sma_50.num * 50
                         = SeqSum(SubSeq(close, n - 49, n)) * signals.sma_50.den

\* A frame of 49 bars with a price change inside the shorter windows:
\* sma_50 reads 0 while sma_20 and the RSI are computed.
C16_Witness ==
    /\ signals.status = "ok"
    /\ Len(historical_data.close) = 49
    /\ signals.sma_50.num = 0
    /\ signals.sma_20.num > 0
    /\ signals.sma_5.num > 0
    /\ signals.rsi.num > 0
    /\ signals.volatility.kind = "float"
    /\ historical_data.close[40] # historical_data.close[49]

====
